---- MODULE Spec2Model ----
(***************************************************************************)
(* The multi-agent research pipeline of research_pipeline.py: the planner  *)
(* (regex search + ast.literal_eval), the source-quality evaluator (regex  *)
(* findall + allow-list ratio), the draft/critique/revise loop and the     *)
(* orchestrator that sequences them.                                       *)
(*                                                                         *)
(* A Python str is a sequence of one-character strings, so that slicing,   *)
(* searching and f-string concatenation are computed character by          *)
(* character as the interpreter does.                                      *)
(***************************************************************************)
EXTENDS Integers, Sequences, FiniteSets, TLC

VARIABLES
    pc,                \* position of the running function
    topic,             \* argument of run_research_pipeline / planning_agent
    content,           \* planning_agent: response.choices[0].message.content
    plan,              \* value returned by planning_agent
    error,             \* exception propagating out of the run ("none" if none)
    idx,               \* 1-based position of the for-loop in plan
    raw_research,      \* value returned by tools_usage_agent / argument of eval_error_analysis
    analysis,          \* locals of eval_error_analysis: urls, trusted, score, status
    accumulated_data,  \* run_research_pipeline: the corpus string
    draft,             \* drafting_reflection_loop: draft
    reflection,        \* drafting_reflection_loop: reflection
    final_report,      \* value returned by drafting_reflection_loop
    calls,             \* every CLIENT.chat.completions.create call made, in order
    verdicts,          \* every value returned by eval_error_analysis, in order
    findings,          \* every value returned by tools_usage_agent, in order
    trace              \* research / eval events of the loop, in order

vars ==
    <<pc, topic, content, plan, error, idx, raw_research, analysis, accumulated_data,
      draft, reflection, final_report, calls, verdicts, findings, trace>>

-----------------------------------------------------------------------------
(* Bounds of the model.                                                    *)

MaxPlanFrags == 5
MaxEvalFrags == 4
MaxPlanLen == 3

-----------------------------------------------------------------------------
(* Configuration, research_pipeline.py lines 19-22.                        *)

PLANNER_MODEL == "openai:o4-mini"
RESEARCH_MODEL == "openai:gpt-4o"
WRITER_MODEL == "openai:gpt-4o"
EDITOR_MODEL == "openai:o4-mini"

-----------------------------------------------------------------------------
(* Generic string helpers.                                                 *)

\* s[i:i+len(p)] == p
MatchesAt(s, i, p) ==
    /\ i >= 1
    /\ i + Len(p) - 1 <= Len(s)
    /\ \A k \in 1..Len(p) : s[i + k - 1] = p[k]

\* Python's `p in s` for two strs
Contains(s, p) ==
    \E i \in 1..(Len(s) - Len(p) + 1) : MatchesAt(s, i, p)

RECURSIVE FindChar(_, _, _)
\* s.find(c, i) with 1-based positions, 0 when absent
FindChar(s, i, c) ==
    IF i > Len(s) THEN 0
    ELSE IF s[i] = c THEN i
    ELSE FindChar(s, i + 1, c)

RECURSIVE RFindChar(_, _, _)
\* s.rfind(c) scanning down from position i, 0 when absent
RFindChar(s, i, c) ==
    IF i < 1 THEN 0
    ELSE IF s[i] = c THEN i
    ELSE RFindChar(s, i - 1, c)

RECURSIVE RunEnd(_, _, _)
\* the first position >= i whose character is not in cls (Len(s)+1 if none)
RunEnd(s, i, cls) ==
    IF i <= Len(s) /\ s[i] \in cls THEN RunEnd(s, i + 1, cls) ELSE i

RECURSIVE Flatten(_)
\* "".join(seq) for a sequence of strs
Flatten(seq) ==
    IF seq = <<>> THEN <<>> ELSE Head(seq) \o Flatten(Tail(seq))

-----------------------------------------------------------------------------
(* re.search(r"\[.*\]", content, re.DOTALL): with DOTALL "." matches every *)
(* character, and ".*" is greedy, so the match runs from the first "[" to  *)
(* the last "]" after it.  NoMatch stands for None.                        *)

NoMatch == <<>>

ListRegexSearch(text) ==
    LET open == FindChar(text, 1, "[")
        close == RFindChar(text, Len(text), "]")
    IN  IF open > 0 /\ close > open THEN SubSeq(text, open, close) ELSE NoMatch

-----------------------------------------------------------------------------
(* ast.literal_eval on source text over the alphabet                       *)
(*     [  ]  '  ,  space  letters a k o x  digits 1-9                      *)
(* (no backslash, no newline, no double quote, no string prefix letter).   *)
(* The text is parsed as an expression (SyntaxError when it is none) and   *)
(* the tree is then converted: only str and int constants, lists and       *)
(* tuples convert, a name or a subscript raises ValueError.                *)

PyLetters == {"a", "k", "o", "x"}
PyDigits == {"1", "2", "3", "4", "5", "6", "7", "8", "9"}
DecimalDigits == <<"0", "1", "2", "3", "4", "5", "6", "7", "8", "9">>

StrNode(chars) == [t |-> "str", v |-> chars]
IntNode(n) == [t |-> "int", v |-> n]
NameNode(chars) == [t |-> "name", v |-> chars]
ListNode(items) == [t |-> "list", v |-> items]
TupleNode(items) == [t |-> "tuple", v |-> items]
SubscriptNode(base, items) == [t |-> "sub", v |-> <<base>> \o items]
NoNode == [t |-> "none", v |-> <<>>]

ParseFail == [ok |-> FALSE, node |-> NoNode, pos |-> 0]
ParseOk(node, pos) == [ok |-> TRUE, node |-> node, pos |-> pos]

DigitValue(c) == CHOOSE d \in 0..9 : DecimalDigits[d + 1] = c

RECURSIVE DigitsToInt(_, _)
\* int(digits): the decimal value, most significant digit first
DigitsToInt(digits, acc) ==
    IF digits = <<>> THEN acc
    ELSE DigitsToInt(Tail(digits), 10 * acc + DigitValue(Head(digits)))

\* the tokenizer skips blanks between tokens
SkipSpaces(s, i) == RunEnd(s, i, {" "})

TripleQuote == <<"'", "'", "'">>

RECURSIVE FindTriple(_, _)
\* the first position >= i where a closing ''' starts, 0 when absent
FindTriple(s, i) ==
    IF i + 2 > Len(s) THEN 0
    ELSE IF MatchesAt(s, i, TripleQuote) THEN i
    ELSE FindTriple(s, i + 1)

StringTokenFail == [ok |-> FALSE, text |-> <<>>, pos |-> 0]

\* the STRING token opened at i with a quote of `width` characters and closed
\* at `close` (0: never closed)
StringTokenClosed(s, i, width, close) ==
    IF close = 0 THEN StringTokenFail
    ELSE [ok |-> TRUE, text |-> SubSeq(s, i + width, close - 1), pos |-> close + width]

\* one STRING token starting at the quote s[i]: a token that opens with '''
\* runs to the next ''', any other to the next quote
StringToken(s, i) ==
    IF MatchesAt(s, i, TripleQuote)
    THEN StringTokenClosed(s, i, 3, FindTriple(s, i + 3))
    ELSE StringTokenClosed(s, i, 1, FindChar(s, i + 1, "'"))

RECURSIVE ParseStrings(_, _, _)

\* after one token of STRING+ : another token follows, or the atom ends
StringsNext(s, tok, acc, next) ==
    IF next <= Len(s) /\ s[next] = "'"
    THEN ParseStrings(s, next, acc \o tok.text)
    ELSE ParseOk(StrNode(acc \o tok.text), tok.pos)

StringsAfter(s, tok, acc) ==
    IF tok.ok THEN StringsNext(s, tok, acc, SkipSpaces(s, tok.pos)) ELSE ParseFail

\* STRING+ : adjacent string literals are concatenated by the parser
ParseStrings(s, i, acc) == StringsAfter(s, StringToken(s, i), acc)

RECURSIVE ParseExpr(_, _), ParseItems(_, _, _), ParseTrailers(_, _, _)

\* after an item e of a bracketed list, at the next token m: ',' or ']'
ItemsSeparator(s, e, acc, m) ==
    IF m > Len(s) THEN ParseFail
    ELSE IF s[m] = "," THEN ParseItems(s, m + 1, Append(acc, e.node))
    ELSE IF s[m] = "]" THEN ParseOk(ListNode(Append(acc, e.node)), m + 1)
    ELSE ParseFail

ItemsAfter(s, e, acc) ==
    IF e.ok THEN ItemsSeparator(s, e, acc, SkipSpaces(s, e.pos)) ELSE ParseFail

ItemsAt(s, k, acc) ==
    IF k > Len(s) THEN ParseFail
    ELSE IF s[k] = "]" THEN ParseOk(ListNode(acc), k + 1)
    ELSE ItemsAfter(s, ParseExpr(s, k), acc)

\* expression (',' expression)* [','] ']' , entered after '[' or after ','
ParseItems(s, i, acc) == ItemsAt(s, SkipSpaces(s, i), acc)

\* NAME: a letter, then letters and digits up to e
NameAt(s, i, e) == ParseOk(NameNode(SubSeq(s, i, e - 1)), e)

\* NUMBER: digits up to e; a letter right after them is no token
NumberAt(s, i, e) ==
    IF e <= Len(s) /\ s[e] \in PyLetters THEN ParseFail
    ELSE ParseOk(IntNode(DigitsToInt(SubSeq(s, i, e - 1), 0)), e)

\* atom: list display | STRING+ | NAME | NUMBER
ParseAtom(s, i) ==
    IF i > Len(s) THEN ParseFail
    ELSE IF s[i] = "[" THEN ParseItems(s, i + 1, <<>>)
    ELSE IF s[i] = "'" THEN ParseStrings(s, i, <<>>)
    ELSE IF s[i] \in PyLetters THEN NameAt(s, i, RunEnd(s, i, PyLetters \cup PyDigits))
    ELSE IF s[i] \in PyDigits THEN NumberAt(s, i, RunEnd(s, i, PyDigits))
    ELSE ParseFail

\* a subscript '[' slices ']' was parsed as r: slices cannot be empty
TrailerAfter(s, r, base) ==
    IF ~r.ok \/ r.node.v = <<>> THEN ParseFail
    ELSE ParseTrailers(s, r.pos, SubscriptNode(base, r.node.v))

TrailersAt(s, k, base) ==
    IF k <= Len(s) /\ s[k] = "[" THEN TrailerAfter(s, ParseItems(s, k + 1, <<>>), base)
    ELSE ParseOk(base, k)

\* primary: atom followed by any number of subscripts '[' slices ']'
ParseTrailers(s, i, base) == TrailersAt(s, SkipSpaces(s, i), base)

ExprAfter(s, a) == IF a.ok THEN ParseTrailers(s, a.pos, a.node) ELSE ParseFail

ParseExpr(s, i) == ExprAfter(s, ParseAtom(s, SkipSpaces(s, i)))

RECURSIVE ParseTupleRest(_, _, _)

\* after an element e of the top-level expression list, at the next token m
TupleSeparator(s, e, acc, m) ==
    IF m > Len(s) THEN ParseOk(TupleNode(Append(acc, e.node)), m)
    ELSE IF s[m] = "," THEN ParseTupleRest(s, m + 1, Append(acc, e.node))
    ELSE ParseFail

TupleAfter(s, e, acc) ==
    IF e.ok THEN TupleSeparator(s, e, acc, SkipSpaces(s, e.pos)) ELSE ParseFail

TupleAt(s, k, acc) ==
    IF k > Len(s) THEN ParseOk(TupleNode(acc), k) ELSE TupleAfter(s, ParseExpr(s, k), acc)

\* the rest of a top-level expression list, entered after a ','
ParseTupleRest(s, i, acc) == TupleAt(s, SkipSpaces(s, i), acc)

\* after the first expression e of the text, at the next token m
EvalSeparator(s, e, m) ==
    IF m > Len(s) THEN e
    ELSE IF s[m] = "," THEN ParseTupleRest(s, m + 1, <<e.node>>)
    ELSE ParseFail

EvalAfter(s, e) == IF e.ok THEN EvalSeparator(s, e, SkipSpaces(s, e.pos)) ELSE ParseFail

\* ast.parse(text, mode="eval"): one expression list up to the end of the text
ParseEval(s) == EvalAfter(s, ParseExpr(s, 1))

RECURSIVE Convertible(_)
\* literal_eval's _convert succeeds on the node
Convertible(node) ==
    CASE node.t \in {"str", "int"} -> TRUE
      [] node.t \in {"list", "tuple"} -> \A k \in 1..Len(node.v) : Convertible(node.v[k])
      [] OTHER -> FALSE

\* the tree p of the parse, converted
ConvertParsed(p) ==
    IF ~p.ok THEN [raised |-> "SyntaxError", value |-> NoNode]
    ELSE IF ~Convertible(p.node) THEN [raised |-> "ValueError", value |-> NoNode]
    ELSE [raised |-> "none", value |-> p.node]

\* ast.literal_eval(text): the value, or the exception it raises
LiteralEval(text) == ConvertParsed(ParseEval(text))

-----------------------------------------------------------------------------
(* str() and repr() of the values literal_eval returns, as the f-strings   *)
(* of lines 54 and 193 format a plan element.                              *)

RECURSIVE IntToStr(_)
IntToStr(n) ==
    IF n < 10 THEN <<DecimalDigits[n + 1]>>
    ELSE IntToStr(n \div 10) \o <<DecimalDigits[(n % 10) + 1]>>

RECURSIVE JoinWith(_, _)
\* sep.join(parts)
JoinWith(parts, sep) ==
    IF parts = <<>> THEN <<>>
    ELSE IF Len(parts) = 1 THEN parts[1]
    ELSE parts[1] \o sep \o JoinWith(Tail(parts), sep)

RECURSIVE Repr(_)
Repr(v) ==
    CASE v.t = "str" ->
            LET q == IF \E k \in 1..Len(v.v) : v.v[k] = "'" THEN "\"" ELSE "'"
            IN  <<q>> \o v.v \o <<q>>
      [] v.t = "int" -> IntToStr(v.v)
      [] v.t = "list" ->
            <<"[">> \o JoinWith([k \in 1..Len(v.v) |-> Repr(v.v[k])], <<",", " ">>) \o <<"]">>
      [] v.t = "tuple" ->
            <<"(">> \o JoinWith([k \in 1..Len(v.v) |-> Repr(v.v[k])], <<",", " ">>)
                \o (IF Len(v.v) = 1 THEN <<",">> ELSE <<>>) \o <<")">>

\* f"{v}"
Str(v) == IF v.t = "str" THEN v.v ELSE Repr(v)

-----------------------------------------------------------------------------
(* planning_agent, lines 46-57, once the planner model has answered `text`:*)
(* the plan it returns, or the exception that line 49 raises.              *)

PlanningAgent(tp, text) ==
    LET match == ListRegexSearch(text)
    IN  IF match # NoMatch THEN LiteralEval(match)
        ELSE [raised |-> "none", value |-> ListNode(<<StrNode(tp)>>)]

-----------------------------------------------------------------------------
(* eval_error_analysis, lines 94-112.                                      *)

preferred_domains ==
    << <<"a", "r", "x", "i", "v", ".", "o", "r", "g">>,
       <<"n", "a", "t", "u", "r", "e", ".", "c", "o", "m">>,
       <<"n", "a", "s", "a", ".", "g", "o", "v">>,
       <<"s", "c", "i", "e", "n", "c", "e", ".", "o", "r", "g">>,
       <<"m", "i", "t", ".", "e", "d", "u">> >>

\* the characters \s matches among those the model's texts are written in
Whitespace == {" ", "\t", "\n", "\r", "\f"}

\* the class [^\s)\]] excludes these
UrlTerminators == Whitespace \cup {")", "]"}

RECURSIVE UrlBodyEnd(_, _)
\* [^\s)\]]+ is greedy: the first position >= i holding a terminator
UrlBodyEnd(s, i) ==
    IF i <= Len(s) /\ s[i] \notin UrlTerminators THEN UrlBodyEnd(s, i + 1) ELSE i

\* https?://[^\s)\]]+ matched at position i: the position after the match, 0 if none
UrlMatchEnd(s, i) ==
    IF ~MatchesAt(s, i, <<"h", "t", "t", "p">>) THEN 0
    ELSE LET k == IF i + 4 <= Len(s) /\ s[i + 4] = "s" THEN i + 5 ELSE i + 4
         IN  IF ~MatchesAt(s, k, <<":", "/", "/">>) THEN 0
             ELSE LET e == UrlBodyEnd(s, k + 3)
                  IN  IF e = k + 3 THEN 0 ELSE e

RECURSIVE FindAllUrls(_, _, _)
\* re.findall(r"(https?://[^\s)\]]+)", s): non-overlapping matches, left to right
FindAllUrls(s, i, acc) ==
    IF i > Len(s) THEN acc
    ELSE LET e == UrlMatchEnd(s, i)
         IN  IF e = 0 THEN FindAllUrls(s, i + 1, acc)
             ELSE FindAllUrls(s, e, Append(acc, SubSeq(s, i, e - 1)))

\* any(dom in u for dom in preferred_domains)
IsTrusted(u) == \E d \in 1..Len(preferred_domains) : Contains(u, preferred_domains[d])

\* a / b as an exact ratio; the float quotient of two small counts compares
\* with 0.5 as the exact ratio does
Ratio(a, b) == [num |-> a, den |-> b]
Half == Ratio(1, 2)
RatioGreater(x, y) == x.num * y.den > y.num * x.den

PASS == "PASS"
FAIL == "FAIL (Low Credibility)"

\* StatusOf with the threshold met at exactly one half (score >= 0.5)
StatusOfAtLeastHalf(score) == IF RatioGreater(Half, score) THEN FAIL ELSE PASS

\* status = "PASS" if score > 0.5 else "FAIL (Low Credibility)"
StatusOf(score) == IF RatioGreater(score, Half) THEN PASS ELSE FAIL

EvalErrorAnalysis(research_output) ==
    LET found == FindAllUrls(research_output, 1, <<>>)
        good == SelectSeq(found, IsTrusted)
        score == IF found # <<>> THEN Ratio(Len(good), Len(found)) ELSE Ratio(0, 1)
    IN  [urls |-> found, trusted |-> good, score |-> score, status |-> StatusOf(score)]

NoAnalysis == [urls |-> <<>>, trusted |-> <<>>, score |-> Ratio(0, 1), status |-> "none"]

-----------------------------------------------------------------------------
(* The literal text of the prompts and of the corpus label.                *)

\* lines 36-37
PlannerPromptHead ==
    <<"\n", " ", " ", " ", " ", "Y", "o", "u", " ", "a", "r", "e", " ", "a", " ", "R", "e",
    "s", "e", "a", "r", "c", "h", " ", "A", "r", "c", "h", "i", "t", "e", "c", "t", ".",
    " ", "D", "e", "c", "o", "m", "p", "o", "s", "e", " ", "t", "h", "e", " ", "t", "o",
    "p", "i", "c", " ", "\"">>

\* lines 37-39
PlannerPromptTail ==
    <<"\"", " ", "i", "n", "t", "o", " ", "4", "-", "5", " ", "\n", " ", " ", " ", " ",
    "a", "t", "o", "m", "i", "c", ",", " ", "s", "e", "q", "u", "e", "n", "t", "i", "a",
    "l", " ", "r", "e", "s", "e", "a", "r", "c", "h", " ", "s", "t", "e", "p", "s", ".",
    " ", "R", "e", "t", "u", "r", "n", " ", "O", "N", "L", "Y", " ", "a", " ", "v", "a",
    "l", "i", "d", " ", "P", "y", "t", "h", "o", "n", " ", "l", "i", "s", "t", " ", "o",
    "f", " ", "s", "t", "r", "i", "n", "g", "s", ".", "\n", " ", " ", " ", " ">>

\* line 75
ResearchPromptDate ==
    <<"D", "a", "t", "e", ":", " ">>

\* line 75
ResearchPromptTask ==
    <<".", " ", "P", "e", "r", "f", "o", "r", "m", " ", "d", "e", "e", "p", " ", "r", "e",
    "s", "e", "a", "r", "c", "h", " ", "o", "n", ":", " ">>

\* line 76
ResearchPromptTail ==
    <<".", " ", "P", "r", "o", "v", "i", "d", "e", " ", "c", "i", "t", "a", "t", "i", "o",
    "n", "s", " ", "a", "n", "d", " ", "U", "R", "L", "s", ".">>

\* line 193
FindingsLabelHead ==
    <<"\n", "\n", "-", "-", "-", " ", "F", "i", "n", "d", "i", "n", "g", "s", " ", "f",
    "o", "r", ":", " ">>

\* line 193
FindingsLabelTail ==
    <<" ", "-", "-", "-", "\n">>

\* line 134
DraftPromptHead ==
    <<"D", "r", "a", "f", "t", " ", "a", "n", " ", "i", "n", "-", "d", "e", "p", "t", "h",
    " ", "r", "e", "p", "o", "r", "t", " ", "o", "n", " ">>

\* line 134
DraftPromptUsing ==
    <<" ", "u", "s", "i", "n", "g", ":", " ">>

\* line 147
CritiquePromptHead ==
    <<"C", "r", "i", "t", "i", "q", "u", "e", " ", "t", "h", "i", "s", " ", "f", "o", "r",
    " ", "a", "c", "a", "d", "e", "m", "i", "c", " ", "d", "e", "p", "t", "h", " ", "a",
    "n", "d", " ", "a", "c", "c", "u", "r", "a", "c", "y", ":", "\n">>

\* line 159
ReviseSystemContent ==
    <<"R", "e", "v", "i", "s", "e", " ", "b", "a", "s", "e", "d", " ", "o", "n", " ", "c",
    "r", "i", "t", "i", "q", "u", "e", ".">>

\* line 162
RevisePromptCritique ==
    <<"C", "r", "i", "t", "i", "q", "u", "e", ":", " ">>

\* line 162
RevisePromptDraft ==
    <<"\n", "\n", "D", "r", "a", "f", "t", ":", " ">>

-----------------------------------------------------------------------------
(* The messages of each CLIENT.chat.completions.create call and the corpus *)
(* entry, built as the f-strings build them.                               *)

UserMessage(text) == [role |-> "user", content |-> text]
SystemMessage(text) == [role |-> "system", content |-> text]

\* planning_agent, lines 36-42
PlannerMessages(tp) ==
    <<UserMessage(PlannerPromptHead \o tp \o PlannerPromptTail)>>

\* tools_usage_agent, lines 74-81
ResearchMessages(current_date, task) ==
    <<UserMessage(ResearchPromptDate \o current_date \o ResearchPromptTask
                    \o Str(task) \o ResearchPromptTail)>>

\* f"\n\n--- Findings for: {step} ---\n{raw_research}", line 193
FindingsEntry(step, research) ==
    FindingsLabelHead \o Str(step) \o FindingsLabelTail \o research

\* drafting_reflection_loop, lines 131-136
DraftMessages(tp, data) ==
    <<UserMessage(DraftPromptHead \o tp \o DraftPromptUsing \o data)>>

\* drafting_reflection_loop, lines 143-151
CritiqueMessages(draft_text) ==
    <<UserMessage(CritiquePromptHead \o draft_text)>>

\* ReviseMessages with the draft cut to fit a prompt budget
ReviseMessagesTruncated(critique_text, draft_text) ==
    <<SystemMessage(ReviseSystemContent),
      UserMessage(RevisePromptCritique \o critique_text \o RevisePromptDraft
                    \o SubSeq(draft_text, 1, Len(draft_text) \div 2))>>

\* drafting_reflection_loop, lines 158-164
ReviseMessages(critique_text, draft_text) ==
    <<SystemMessage(ReviseSystemContent),
      UserMessage(RevisePromptCritique \o critique_text \o RevisePromptDraft \o draft_text)>>

-----------------------------------------------------------------------------
(* A record of one gateway call: the model named, the messages sent and    *)
(* the text returned, or Raised when the call raised instead of returning. *)

\* a value no Python str equals: a variable not assigned yet
None == <<"None">>
Raised == <<"ModelUnavailable">>

Call(model, messages, response) ==
    [model |-> model, messages |-> messages, response |-> response]

\* the elements a for-loop over the plan visits
Steps(p) == p.v

ResearchEvent(i) == [op |-> "research", step |-> i]
EvalEvent(i) == [op |-> "eval", step |-> i]

-----------------------------------------------------------------------------
(* The inputs: the topic, and what the models and the clock answer.        *)

Topics ==
    { <<"f", "u", "s", "i", "o", "n">>, <<"A", "I">> }

\* datetime.now().strftime("%Y-%m-%d")
Dates ==
    { <<"2", "0", "2", "6", "-", "1", "0", "-", "3", "0">>,
      <<"2", "0", "2", "6", "-", "1", "0", "-", "3", "1">> }

\* research answers: one whose only URL is allow-listed, one whose only URL is not
FindingTexts ==
    { <<"s", "e", "e", " ", "h", "t", "t", "p", ":", "/", "/", "m", "i", "t", ".", "e",
        "d", "u", "/", "a">>,
      <<"h", "t", "t", "p", "s", ":", "/", "/", "a", ".", "i", "o">> }

DraftTexts ==
    { <<"d", "r", "a", "f", "t", " ", "o", "n", "e">>,
      <<"d", "r", "a", "f", "t", " ", "t", "w", "o">> }

CritiqueTexts ==
    { <<>>, <<"t", "o", "o", " ", "s", "h", "a", "l", "l", "o", "w">> }

RevisedTexts ==
    { <<"f", "i", "n", "a", "l", " ", "t", "e", "x", "t">>,
      <<"d", "r", "a", "f", "t", " ", "o", "n", "e">> }

\* planner answers built from pieces of Python source and prose
PlanFragments ==
    << <<"[">>, <<"]">>, <<"'", "a", "'">>, <<"'", "x", "'">>, <<",">>, <<" ">>, <<"1">>,
       <<"o", "k">> >>

FragmentSeqs(frags, n) == UNION {[1..m -> 1..Len(frags)] : m \in 0..n}
Assemble(frags, q) == Flatten([k \in 1..Len(q) |-> frags[q[k]]])

PlannerContents(n) ==
    {Assemble(PlanFragments, q) : q \in FragmentSeqs(PlanFragments, n)}

\* planner answers of a whole run: prose followed by a list of up to MaxPlanLen
\* step names, and answers that are no list of strings
StepNames == { <<"a", "x">>, <<"o", "k", " ", "a">> }
ListLiteralText(names) ==
    <<"[">> \o JoinWith([k \in 1..Len(names) |-> <<"'">> \o names[k] \o <<"'">>], <<",", " ">>)
        \o <<"]">>
OddContents ==
    { <<"o", "k">>,
      <<"[", "o", "k", "]">>,
      <<"[", "'", "a", "'">>,
      <<"[", "'", "a", "'", " ", "o", "k", "]">>,
      <<"[", "1", ",", " ", "'", "a", "'", "]">>,
      <<"[", "'", "a", "'", "]", ",", " ", "[", "'", "x", "'", "]">>,
      <<"[", "'", "a", "'", "]", " ", "[", "'", "x", "'", "]">> }
PipelineContents ==
    {<<"o", "k", " ">> \o ListLiteralText(names) :
        names \in UNION {[1..n -> StepNames] : n \in 0..MaxPlanLen}} \cup OddContents

\* research answers for the evaluator alone: URLs ended by a blank, by ")",
\* by nothing (so that the next piece runs on), a bare scheme, and prose
EvalFragments ==
    << <<"h", "t", "t", "p", ":", "/", "/", "m", "i", "t", ".", "e", "d", "u", " ">>,
       <<"h", "t", "t", "p", "s", ":", "/", "/", "a", ".", "i", "o", ")">>,
       <<"h", "t", "t", "p", ":", "/", "/", "n", "a", "s", "a", ".", "g", "o", "v">>,
       <<"h", "t", "t", "p", ":", "/", "/">>,
       <<"s", "e", "e", "\n">>,
       <<"h", "t", "t", "p", "s", ":", "/", "/", "x", ".", "o", "r", "g", "]">> >>

EvalTexts(n) ==
    {Assemble(EvalFragments, q) : q \in FragmentSeqs(EvalFragments, n)}

-----------------------------------------------------------------------------
(* run_research_pipeline, lines 174-200.                                   *)

Init ==
    /\ pc = "plan"
    /\ topic \in Topics
    /\ content = None
    /\ plan = NoNode
    /\ error = "none"
    /\ idx = 0
    /\ raw_research = None
    /\ analysis = NoAnalysis
    /\ accumulated_data = None
    /\ draft = None
    /\ reflection = None
    /\ final_report = None
    /\ calls = <<>>
    /\ verdicts = <<>>
    /\ findings = <<>>
    /\ trace = <<>>

\* line 186: planning_agent(topic), the planner model answering c; an
\* exception of line 49 leaves run_research_pipeline
Planning(c) ==
    /\ pc = "plan"
    /\ content' = c
    /\ calls' = Append(calls, Call(PLANNER_MODEL, PlannerMessages(topic), c))
    /\ LET r == PlanningAgent(topic, c)
       IN  IF r.raised # "none"
           THEN /\ error' = r.raised
                /\ pc' = "aborted"
                /\ UNCHANGED <<plan, accumulated_data, idx>>
           ELSE /\ plan' = r.value
                /\ accumulated_data' = <<>>
                /\ idx' = 1
                /\ pc' = IF Steps(r.value) # <<>> THEN "research" ELSE "draft"
                /\ UNCHANGED error
    /\ UNCHANGED <<topic, raw_research, analysis, draft, reflection, final_report,
                   verdicts, findings, trace>>

\* CallRaises with the exception caught around the call and the call made again
CallRaisesRetried(at, model, messages) ==
    /\ pc = at
    /\ Len(calls) < 12
    /\ calls' = Append(calls, Call(model, messages, Raised))
    /\ UNCHANGED <<pc, error, topic, content, plan, idx, raw_research, analysis,
                   accumulated_data, draft, reflection, final_report, verdicts, findings,
                   trace>>

\* a gateway call that raises: nothing catches it, the run ends
CallRaises(at, model, messages) ==
    /\ pc = at
    /\ calls' = Append(calls, Call(model, messages, Raised))
    /\ error' = "ModelUnavailable"
    /\ pc' = "aborted"
    /\ UNCHANGED <<topic, content, plan, idx, raw_research, analysis, accumulated_data,
                   draft, reflection, final_report, verdicts, findings, trace>>

PlanningRaises == CallRaises("plan", PLANNER_MODEL, PlannerMessages(topic))

\* line 191: tools_usage_agent(step)
Research(current_date, answer) ==
    /\ pc = "research"
    /\ calls' = Append(calls, Call(RESEARCH_MODEL,
                                   ResearchMessages(current_date, Steps(plan)[idx]), answer))
    /\ raw_research' = answer
    /\ findings' = Append(findings, answer)
    /\ trace' = Append(trace, ResearchEvent(idx))
    /\ pc' = "eval"
    /\ UNCHANGED <<topic, content, plan, error, idx, analysis, accumulated_data, draft,
                   reflection, final_report, verdicts>>

ResearchRaises ==
    \E d \in Dates :
        CallRaises("research", RESEARCH_MODEL, ResearchMessages(d, Steps(plan)[idx]))

\* EvalAndAppend with the newest entry put first
EvalAndAppendNewestFirst ==
    /\ pc = "eval"
    /\ analysis' = EvalErrorAnalysis(raw_research)
    /\ verdicts' = Append(verdicts, analysis'.status)
    /\ trace' = Append(trace, EvalEvent(idx))
    /\ accumulated_data' = FindingsEntry(Steps(plan)[idx], raw_research) \o accumulated_data
    /\ idx' = idx + 1
    /\ pc' = IF idx < Len(Steps(plan)) THEN "research" ELSE "draft"
    /\ UNCHANGED <<topic, content, plan, error, raw_research, draft, reflection,
                   final_report, calls, findings>>

\* EvalAndAppend with the loop left on a FAIL verdict
EvalAndAppendGated ==
    /\ pc = "eval"
    /\ analysis' = EvalErrorAnalysis(raw_research)
    /\ verdicts' = Append(verdicts, analysis'.status)
    /\ trace' = Append(trace, EvalEvent(idx))
    /\ accumulated_data' = accumulated_data \o FindingsEntry(Steps(plan)[idx], raw_research)
    /\ idx' = idx + 1
    /\ pc' = IF idx < Len(Steps(plan)) /\ analysis'.status = PASS THEN "research" ELSE "draft"
    /\ UNCHANGED <<topic, content, plan, error, raw_research, draft, reflection,
                   final_report, calls, findings>>

\* lines 192-193 and the loop's advance: eval_error_analysis(raw_research), whose
\* result is dropped, then the append to the corpus
EvalAndAppend ==
    /\ pc = "eval"
    /\ analysis' = EvalErrorAnalysis(raw_research)
    /\ verdicts' = Append(verdicts, analysis'.status)
    /\ trace' = Append(trace, EvalEvent(idx))
    /\ accumulated_data' = accumulated_data \o FindingsEntry(Steps(plan)[idx], raw_research)
    /\ idx' = idx + 1
    /\ pc' = IF idx < Len(Steps(plan)) THEN "research" ELSE "draft"
    /\ UNCHANGED <<topic, content, plan, error, raw_research, draft, reflection,
                   final_report, calls, findings>>

\* lines 129-137
Draft(answer) ==
    /\ pc = "draft"
    /\ calls' = Append(calls, Call(WRITER_MODEL, DraftMessages(topic, accumulated_data), answer))
    /\ draft' = answer
    /\ pc' = "critique"
    /\ UNCHANGED <<topic, content, plan, error, idx, raw_research, analysis,
                   accumulated_data, reflection, final_report, verdicts, findings, trace>>

DraftRaises == CallRaises("draft", WRITER_MODEL, DraftMessages(topic, accumulated_data))

\* Critique with the revision skipped when the critique is empty
CritiqueEarlyExit(answer) ==
    /\ pc = "critique"
    /\ calls' = Append(calls, Call(EDITOR_MODEL, CritiqueMessages(draft), answer))
    /\ reflection' = answer
    /\ final_report' = IF answer = <<>> THEN draft ELSE final_report
    /\ pc' = IF answer = <<>> THEN "done" ELSE "revise"
    /\ UNCHANGED <<topic, content, plan, error, idx, raw_research, analysis,
                   accumulated_data, draft, verdicts, findings, trace>>

\* lines 141-152
Critique(answer) ==
    /\ pc = "critique"
    /\ calls' = Append(calls, Call(EDITOR_MODEL, CritiqueMessages(draft), answer))
    /\ reflection' = answer
    /\ pc' = "revise"
    /\ UNCHANGED <<topic, content, plan, error, idx, raw_research, analysis,
                   accumulated_data, draft, final_report, verdicts, findings, trace>>

CritiqueRaises == CallRaises("critique", EDITOR_MODEL, CritiqueMessages(draft))

\* lines 156-167 and 196-200: the revise call, the return and the final display
Revise(answer) ==
    /\ pc = "revise"
    /\ calls' = Append(calls, Call(WRITER_MODEL, ReviseMessages(reflection, draft), answer))
    /\ final_report' = answer
    /\ pc' = "done"
    /\ UNCHANGED <<topic, content, plan, error, idx, raw_research, analysis,
                   accumulated_data, draft, reflection, verdicts, findings, trace>>

ReviseRaises == CallRaises("revise", WRITER_MODEL, ReviseMessages(reflection, draft))

PlanningStep == \E c \in PipelineContents : Planning(c)
ResearchStep == \E d \in Dates, a \in FindingTexts : Research(d, a)
DraftStep == \E a \in DraftTexts : Draft(a)
CritiqueStep == \E a \in CritiqueTexts : Critique(a)
ReviseStep == \E a \in RevisedTexts : Revise(a)

Next ==
    \/ PlanningStep
    \/ PlanningRaises
    \/ ResearchStep
    \/ ResearchRaises
    \/ EvalAndAppend
    \/ DraftStep
    \/ DraftRaises
    \/ CritiqueStep
    \/ CritiqueRaises
    \/ ReviseStep
    \/ ReviseRaises

Spec == Init /\ [][Next]_vars

-----------------------------------------------------------------------------
(* planning_agent alone: the planner's answer is drawn first, then the     *)
(* planning step of the run is taken on it.                                *)

InitPlanner ==
    /\ pc = "plan"
    /\ topic \in Topics
    /\ content \in PlannerContents(MaxPlanFrags)
    /\ plan = NoNode
    /\ error = "none"
    /\ idx = 0
    /\ raw_research = None
    /\ analysis = NoAnalysis
    /\ accumulated_data = None
    /\ draft = None
    /\ reflection = None
    /\ final_report = None
    /\ calls = <<>>
    /\ verdicts = <<>>
    /\ findings = <<>>
    /\ trace = <<>>

NextPlanner == Planning(content)

SpecPlanner == InitPlanner /\ [][NextPlanner]_vars

-----------------------------------------------------------------------------
(* eval_error_analysis alone: the run has planned the one-step fallback    *)
(* plan and the research call has just answered; the evaluation step of    *)
(* the run is taken on that answer.                                        *)

InitEval ==
    \E tp \in Topics, d \in Dates, answer \in EvalTexts(MaxEvalFrags) :
        LET fallback == PlanningAgent(tp, <<"o", "k">>).value
        IN  /\ pc = "eval"
            /\ topic = tp
            /\ content = <<"o", "k">>
            /\ plan = fallback
            /\ error = "none"
            /\ idx = 1
            /\ raw_research = answer
            /\ analysis = NoAnalysis
            /\ accumulated_data = <<>>
            /\ draft = None
            /\ reflection = None
            /\ final_report = None
            /\ calls = <<Call(PLANNER_MODEL, PlannerMessages(tp), <<"o", "k">>),
                         Call(RESEARCH_MODEL, ResearchMessages(d, Steps(fallback)[1]), answer)>>
            /\ verdicts = <<>>
            /\ findings = <<answer>>
            /\ trace = <<ResearchEvent(1)>>

NextEval == EvalAndAppend

SpecEval == InitEval /\ [][NextEval]_vars

-----------------------------------------------------------------------------
(* The properties.  What they say of the log of calls is read from the     *)
(* text of the messages, not from the step that made the call.             *)

StartsWith(text, prefix) == MatchesAt(text, 1, prefix)

IsResearchCall(c) == StartsWith(c.messages[1].content, ResearchPromptDate)
IsDraftCall(c) == StartsWith(c.messages[1].content, DraftPromptHead)
IsCritiqueCall(c) == StartsWith(c.messages[1].content, CritiquePromptHead)
IsReviseCall(c) == c.messages[1].role = "system"
IsEngineCall(c) == IsDraftCall(c) \/ IsCritiqueCall(c) \/ IsReviseCall(c)

FailedCalls == {k \in 1..Len(calls) : calls[k].response = Raised}
Planned == plan # NoNode
PlanLength == Len(Steps(plan))
AfterLoop == pc \in {"draft", "critique", "revise", "done"}

\* the entry of the corpus for step i, as the specification words it: the
\* finding under the label of its step
LabelledFinding(i) ==
    <<"\n", "\n", "-", "-", "-", " ", "F", "i", "n", "d", "i", "n", "g", "s", " ", "f",
      "o", "r", ":", " ">> \o Str(Steps(plan)[i]) \o <<" ", "-", "-", "-", "\n">>
        \o findings[i]

\* the entries of steps 1..k, in plan order
LabelledCorpus(k) == Flatten([i \in 1..k |-> LabelledFinding(i)])

IsStringList(v) ==
    /\ v.t = "list"
    /\ v.v # <<>>
    /\ \A k \in 1..Len(v.v) : v.v[k].t = "str"

FallbackPlan == ListNode(<<StrNode(topic)>>)

\* C1: planning_agent never raises, and whenever the answer holds no
\* bracketed substring, or the one found does not decode, the plan returned
\* is exactly [topic].
C1_PlannerNeverRaises ==
    (pc # "plan" /\ content # None) =>
        /\ error = "none"
        /\ (\/ ListRegexSearch(content) = NoMatch
            \/ LiteralEval(ListRegexSearch(content)).raised # "none") => plan = FallbackPlan

\* the spans content[i..j] that are, on their own, a list literal of strings
StringListSpans(text) ==
    {sp \in (1..Len(text)) \X (1..Len(text)) :
        /\ sp[1] < sp[2]
        /\ text[sp[1]] = "["
        /\ text[sp[2]] = "]"
        /\ LiteralEval(SubSeq(text, sp[1], sp[2])).raised = "none"
        /\ IsStringList(LiteralEval(SubSeq(text, sp[1], sp[2])).value)}

\* the leftmost such span
FirstStringListSpan(text) ==
    CHOOSE sp \in StringListSpans(text) :
        \A other \in StringListSpans(text) :
            sp[1] < other[1] \/ (sp[1] = other[1] /\ sp[2] <= other[2])

\* C2: when the answer embeds a well-formed list-of-strings literal, whatever
\* surrounds it, planning_agent returns the strings of the first such
\* literal, in order.
C2_FirstListLiteralReturned ==
    (pc # "plan" /\ content # None /\ StringListSpans(content) # {}) =>
        /\ error = "none"
        /\ plan = LiteralEval(SubSeq(content, FirstStringListSpan(content)[1],
                                     FirstStringListSpan(content)[2])).value

\* C3: every plan planning_agent returns is a non-empty list of strings.
C3_PlanIsNonEmptyStringList ==
    Planned => IsStringList(plan)

\* the allow-list as the specification names it
AllowListed(u) ==
    \/ Contains(u, <<"a", "r", "x", "i", "v", ".", "o", "r", "g">>)
    \/ Contains(u, <<"n", "a", "t", "u", "r", "e", ".", "c", "o", "m">>)
    \/ Contains(u, <<"n", "a", "s", "a", ".", "g", "o", "v">>)
    \/ Contains(u, <<"s", "c", "i", "e", "n", "c", "e", ".", "o", "r", "g">>)
    \/ Contains(u, <<"m", "i", "t", ".", "e", "d", "u">>)

AllowListedCount(found) == Cardinality({k \in 1..Len(found) : AllowListed(found[k])})

\* C4: with urls the URLs extracted from the finding and trusted those of
\* them that contain an allow-listed domain, the verdict is PASS exactly when
\* 2*|trusted| > |urls|; with no URL the score is 0 and the verdict FAIL.
C4_PassIffMajorityTrusted ==
    analysis # NoAnalysis =>
        /\ Len(analysis.trusted) = AllowListedCount(analysis.urls)
        /\ \A k \in 1..Len(analysis.trusted) : AllowListed(analysis.trusted[k])
        /\ analysis.status \in {PASS, FAIL}
        /\ analysis.status = PASS <=> 2 * AllowListedCount(analysis.urls) > Len(analysis.urls)
        /\ analysis.urls = <<>> => (analysis.score.num = 0 /\ analysis.status = FAIL)
        /\ verdicts[Len(verdicts)] = analysis.status

\* C4, the boundary case: one URL of two is allow-listed and the verdict is FAIL
C4_Witness ==
    /\ analysis # NoAnalysis
    /\ Len(analysis.urls) = 2
    /\ Len(analysis.trusted) = 1
    /\ analysis.status = FAIL

\* the corpus is the labelled findings of the steps completed so far
C5_CorpusIsPrefix ==
    Planned =>
        /\ Len(verdicts) <= PlanLength
        /\ accumulated_data = LabelledCorpus(Len(verdicts))
        /\ AfterLoop => Len(verdicts) = PlanLength
        /\ \A k \in 1..Len(calls) :
              IsDraftCall(calls[k]) =>
                  calls[k].messages[1].content =
                      DraftPromptHead \o topic \o DraftPromptUsing \o LabelledCorpus(PlanLength)

\* a step changes the corpus only by creating it empty or by appending the
\* entry of the next step
C5_AppendOnly ==
    \/ accumulated_data' = accumulated_data
    \/ accumulated_data = None /\ accumulated_data' = <<>>
    \/ /\ accumulated_data # None
       /\ Len(verdicts') = Len(verdicts) + 1
       /\ plan' = plan
       /\ SubSeq(findings', 1, Len(verdicts)) = SubSeq(findings, 1, Len(verdicts))
       /\ accumulated_data' = accumulated_data \o LabelledFinding(Len(verdicts'))

\* C5: in every state of a run the corpus is exactly the labelled findings
\* of the first k steps of the plan, in plan order, k the number of steps
\* completed; it changes only by appending the next entry; the drafting
\* engine is called with the entries of all the steps.
C5_CorpusAppendOnlyInPlanOrder ==
    []C5_CorpusIsPrefix /\ [][C5_AppendOnly]_vars

\* C5: a run over three steps, not all the same, has finished
C5_Witness ==
    /\ pc = "done"
    /\ PlanLength = 3
    /\ Steps(plan)[1] # Steps(plan)[2]
    /\ findings[2] # findings[3]

\* C6: a run in which no model call fails produces one final report and one
\* verdict per plan step.
C6_OneReportOneVerdictPerStep ==
    (pc \in {"done", "aborted"} /\ FailedCalls = {}) =>
        /\ pc = "done"
        /\ final_report # None
        /\ Len(verdicts) = PlanLength

\* research 1, eval 1, research 2, eval 2, ... for a plan of n steps
ExpectedTrace(n) ==
    [j \in 1..(2 * n) |-> IF j % 2 = 1 THEN ResearchEvent((j + 1) \div 2)
                                        ELSE EvalEvent(j \div 2)]

ResearchCalls == SelectSeq(calls, IsResearchCall)

\* the research prompt of a step, on some date
IsResearchPromptFor(text, step) ==
    \E d \in Dates :
        text = <<"D", "a", "t", "e", ":", " ">> \o d
                 \o <<".", " ", "P", "e", "r", "f", "o", "r", "m", " ", "d", "e", "e", "p",
                      " ", "r", "e", "s", "e", "a", "r", "c", "h", " ", "o", "n", ":", " ">>
                 \o Str(step)
                 \o <<".", " ", "P", "r", "o", "v", "i", "d", "e", " ", "c", "i", "t", "a",
                      "t", "i", "o", "n", "s", " ", "a", "n", "d", " ", "U", "R", "L", "s", ".">>

\* the research calls rc of a run over n steps are the prompts of the steps
\* in plan order, and every draft call carries the corpus of all n steps
CallsFollowPlan(rc, n) ==
    /\ Len(rc) \in {Len(findings), Len(findings) + 1}
    /\ Len(rc) <= n
    /\ \A k \in 1..Len(rc) :
          /\ IsResearchPromptFor(rc[k].messages[1].content, Steps(plan)[k])
          /\ k <= Len(findings) => rc[k].response = findings[k]
    /\ \A k \in 1..Len(calls) :
          IsDraftCall(calls[k]) =>
              /\ Len(findings) = n
              /\ calls[k].messages[1].content =
                    DraftPromptHead \o topic \o DraftPromptUsing \o LabelledCorpus(n)

\* C7: whatever the verdicts, every step is researched once, in plan order,
\* each research followed by its evaluation, and the calls made and the
\* corpus drafted from are those the plan and the findings alone determine.
C7_VerdictNeverGates ==
    Planned =>
        /\ Len(trace) <= 2 * PlanLength
        /\ trace = SubSeq(ExpectedTrace(PlanLength), 1, Len(trace))
        /\ AfterLoop => Len(trace) = 2 * PlanLength
        /\ CallsFollowPlan(ResearchCalls, PlanLength)

\* C7: a finished run whose first verdict was FAIL and that went on to a second step
C7_Witness ==
    /\ pc = "done"
    /\ PlanLength >= 2
    /\ verdicts[1] = FAIL
    /\ verdicts[2] = PASS

\* C8: a gateway call that fails is the last call of the run: it is not
\* retried, no call follows it, the run is aborted with that error and no
\* final report exists.
C8_GatewayFailureIsFatal ==
    FailedCalls # {} =>
        /\ FailedCalls = {Len(calls)}
        /\ pc = "aborted"
        /\ error = "ModelUnavailable"
        /\ final_report = None

\* C8: the critique call failed, after the plan, a research step and the draft
C8_Witness ==
    /\ FailedCalls # {}
    /\ IsCritiqueCall(calls[Len(calls)])
    /\ Len(findings) >= 1

\* C9: the user message of the Revise call contains the whole critique the
\* Critique call returned and the whole draft the Draft call returned, and
\* the Critique call's prompt contains the whole draft.
C9_ReviseCarriesCritiqueAndDraft ==
    \A k \in 1..Len(calls) :
        /\ IsCritiqueCall(calls[k]) =>
              /\ IsDraftCall(calls[k - 1])
              /\ Contains(calls[k].messages[1].content, calls[k - 1].response)
        /\ IsReviseCall(calls[k]) =>
              /\ IsCritiqueCall(calls[k - 1])
              /\ IsDraftCall(calls[k - 2])
              /\ Contains(calls[k].messages[2].content, calls[k - 1].response)
              /\ Contains(calls[k].messages[2].content, calls[k - 2].response)
              /\ calls[k].messages[2].role = "user"

\* C9: the Revise call was made with a critique that is not empty
C9_Witness ==
    /\ pc = "done"
    /\ IsReviseCall(calls[Len(calls)])
    /\ reflection # <<>>
    /\ draft # <<>>

EngineCalls == SelectSeq(calls, IsEngineCall)

EngineOrder == <<"draft", "critique", "revise">>
EngineModels == <<WRITER_MODEL, EDITOR_MODEL, WRITER_MODEL>>

KindOfCall(c) ==
    IF IsDraftCall(c) THEN "draft" ELSE IF IsCritiqueCall(c) THEN "critique" ELSE "revise"

\* the engine's calls ec are Draft, Critique, Revise in that order
EngineCallsInOrder(ec) ==
    /\ Len(ec) <= 3
    /\ \A k \in 1..Len(ec) :
          /\ KindOfCall(ec[k]) = EngineOrder[k]
          /\ ec[k].model = EngineModels[k]
    /\ pc = "done" =>
          /\ Len(ec) = 3
          /\ FailedCalls = {}
          /\ final_report = ec[3].response

\* C10: the engine calls Draft, Critique, Revise, each once and in that
\* order, Draft and Revise on the writer model and Critique on the editor
\* model, whatever the critique says; the report is what Revise returned.
C10_DraftCritiqueReviseOnce ==
    /\ EngineCallsInOrder(EngineCalls)
    /\ final_report # None => pc = "done"

\* C10: a run finished although the critique was empty
C10_Witness ==
    /\ pc = "done"
    /\ reflection = <<>>
    /\ Len(EngineCalls) = 3
====
